---- MODULE Spec2Model ----
(***************************************************************************)
(* A model of the sentiment-analysis service: the TTL cache with its       *)
(* background sweep task (services/sentiment/cache.py), the in-memory rate *)
(* limiter and the API-key check (core/middleware.py, core/security.py),   *)
(* the request schema (models/api/schema.py), the analyzer wrapper         *)
(* (services/sentiment/analyzer.py) and the service that orchestrates them *)
(* (services/sentiment/service.py).                                        *)
(*                                                                         *)
(* Time is a single integer clock `now` (datetime.now() and time.time()    *)
(* read the same wall clock); it starts at 1, so that it is greater than   *)
(* the 0.0 the rate limiter's defaultdict starts every key at.             *)
(***************************************************************************)
EXTENDS Integers, Sequences, FiniteSets, TLC

VARIABLES
    now,           \* the wall clock
    cache,         \* SentimentCache.cache: text -> entry, or NoEntry
    running,       \* SentimentCache._running
    cleanup_task,  \* SentimentCache.cleanup_task: a task id, or NoTask
    tasks,         \* the asyncio tasks created for _cleanup_loop
    callers,       \* the coroutines calling start()/stop(): where each one is
    lastSet,       \* history: per text, the most recent set (time, scores,
                   \* the text as the caller gave it, and the response sent)
    lastOp,        \* history: the last cache operation and what it returned
    requests,      \* RateLimitState.requests: key -> <<count, reset_time>>
    reqs,          \* the HTTP requests in flight: where each one is
    service,       \* the SentimentService singleton: its analyzer and cache
    gated,         \* history: per key, its window as the contract counts it
    arrivals,      \* history: how many requests have arrived
    lastResp       \* history: the last response sent, and how it came about

vars == <<now, cache, running, cleanup_task, tasks, callers, lastSet, lastOp,
          requests, reqs, service, gated, arrivals, lastResp>>

cacheVars == <<cache, running, cleanup_task, tasks, callers, lastSet, lastOp>>
httpVars  == <<requests, reqs, service, gated, arrivals, lastResp>>

(***************************************************************************)
(* Bounds of the model.  The time parameters are configuration values      *)
(* (ttl_minutes, cleanup_interval, WINDOW_SIZE, DEFAULT_RATE_LIMIT); the   *)
(* model instantiates them with a few clock ticks.                         *)
(***************************************************************************)
MaxTime == 4
MaxTasks == 3
ttl == 2
cleanup_interval == 2

(***************************************************************************)
(* Emotion scores.  An EmotionScore object and the dict that model_dump()  *)
(* makes of it are different values: the cache stores dicts and get()      *)
(* builds objects from them again.                                         *)
(***************************************************************************)
EmotionType == {"joy", "sadness", "neutral"}

\* a score is a percentage: 0..100 stands for the float range [0.0, 1.0]
ScoreOk(s) == s \in 0..100

EmotionScoreObj(label, score) ==
    [cls |-> "EmotionScore", label |-> label, score |-> score]

\* a dump that loses the score
model_dump_label_only(obj) == [label |-> obj.label, score |-> 0]

\* EmotionScore.model_dump(): the object's fields as a dict
model_dump(obj) == [label |-> obj.label, score |-> obj.score]

\* EmotionScore(**d): validates the fields of the dict and builds the object
EmotionScoreValid(d) ==
    /\ DOMAIN d = {"label", "score"}
    /\ d.label \in EmotionType
    /\ ScoreOk(d.score)

EmotionScoreFromDict(d) == EmotionScoreObj(d.label, d.score)

MapSeq(s, Op(_)) == [i \in 1..Len(s) |-> Op(s[i])]

\* the score lists the model draws from (in analyzer order, not sorted)
ScoreLists ==
    { <<EmotionScoreObj("joy", 95), EmotionScoreObj("sadness", 5)>>,
      <<EmotionScoreObj("neutral", 50)>> }

\* a text is a sequence of characters; these are the cache keys of the model
Texts == {<<"a">>, <<"A">>}

NoEntry == [present |-> FALSE]
NoTask == 0
\* what get() gives its caller: None, a list of EmotionScore, or a CacheError
Absent == [kind |-> "absent", scores |-> <<>>]
CacheErrorRaised == [kind |-> "CacheError", scores |-> <<>>]
Hit(scores) == [kind |-> "scores", scores |-> scores]

(***************************************************************************)
(* SentimentCache.get and SentimentCache.set as functions of the dict, the *)
(* clock and the arguments.  `fault` stands for an exception inside the    *)
(* try block, which both methods re-raise as core.errors.CacheError.       *)
(***************************************************************************)
\* the expiry test with >= in place of >: an entry would expire at exactly ttl
ExpiredAtTtl(entry, t) == t - entry.timestamp >= ttl

\* `datetime.now() - entry["timestamp"] > self.ttl`
Expired(entry, t) == t - entry.timestamp > ttl

\* what get() returns (or that it raises)
CacheGetResult(c, text, t, fault) ==
    IF fault THEN CacheErrorRaised
    ELSE IF c[text] = NoEntry THEN Absent
    ELSE IF Expired(c[text], t) THEN Absent
    ELSE IF \E i \in 1..Len(c[text].scores) : ~EmotionScoreValid(c[text].scores[i])
         THEN CacheErrorRaised
    ELSE Hit(MapSeq(c[text].scores, EmotionScoreFromDict))

\* a lookup that refreshes the timestamp of the entry it returns
CacheGetDictTouch(c, text, t, fault) ==
    IF fault THEN c
    ELSE IF c[text] = NoEntry THEN c
    ELSE IF Expired(c[text], t) THEN [c EXCEPT ![text] = NoEntry]
    ELSE [c EXCEPT ![text].timestamp = t]

\* the dict after get()
CacheGetDict(c, text, t, fault) ==
    IF fault THEN c
    ELSE IF c[text] = NoEntry THEN c
    ELSE IF Expired(c[text], t) THEN [c EXCEPT ![text] = NoEntry]
    ELSE c

\* the dict after set()
CacheSetDict(c, text, scores, t, fault) ==
    IF fault THEN c
    ELSE [c EXCEPT ![text] =
            [present |-> TRUE, timestamp |-> t,
             scores |-> MapSeq(scores, model_dump)]]

\* a sweep that empties the dict
CleanupExpiredAll(c, t) == [k \in DOMAIN c |-> NoEntry]

\* the keys _cleanup_expired collects in `expired`
ExpiredKeys(c, t) == {k \in DOMAIN c : c[k] # NoEntry /\ Expired(c[k], t)}

\* _cleanup_expired: the dict without its expired entries
CleanupExpired(c, t) ==
    [k \in DOMAIN c |->
        IF c[k] # NoEntry /\ Expired(c[k], t) THEN NoEntry ELSE c[k]]

(***************************************************************************)
(* History of the cache operations.                                        *)
(***************************************************************************)
Op(op, text, result, who, task) ==
    [op |-> op, text |-> text, result |-> result,
     at |-> IF op = "get" THEN now ELSE 0, who |-> who, task |-> task]

NoSet == [done |-> FALSE]

\* SentimentCache.get(text)
CacheGet(text) ==
    /\ cache' = CacheGetDict(cache, text, now, FALSE)
    /\ lastOp' = Op("get", text, CacheGetResult(cache, text, now, FALSE), "", NoTask)
    /\ UNCHANGED <<now, running, cleanup_task, tasks, callers, lastSet>>
    /\ UNCHANGED httpVars

\* SentimentCache.set(text, scores)
CacheSet(text, scores) ==
    /\ cache' = CacheSetDict(cache, text, scores, now, FALSE)
    /\ lastSet' = [lastSet EXCEPT ![text] =
                      [done |-> TRUE, at |-> now, scores |-> scores, by |-> text]]
    /\ lastOp' = Op("set", text, "none", "", NoTask)
    /\ UNCHANGED <<now, running, cleanup_task, tasks, callers>>
    /\ UNCHANGED httpVars

\* the clock advances
Tick ==
    /\ now < MaxTime
    /\ now' = now + 1
    /\ UNCHANGED cacheVars
    /\ UNCHANGED httpVars

(***************************************************************************)
(* The sweep task and the coroutines that call start() and stop().         *)
(* A task is "ready" from create_task until its first step, "sleeping"     *)
(* inside asyncio.sleep, "cancelling" from Task.cancel() until the         *)
(* CancelledError is thrown into it at its next step, and then "done".     *)
(***************************************************************************)
Callers == {"A", "B"}
TaskIds == 1..MaxTasks

\* `born` is history: the time of the start() that created the task, kept
\* while the task is neither cancelled nor done
NoTaskRec == [st |-> "none", wakeAt |-> 0, orphan |-> "no", born |-> 0]

Live(t) == tasks[t].st \in {"ready", "sleeping"}
NotDone(t) == tasks[t].st \in {"ready", "sleeping", "cancelling"}

\* self._running as the task's own SentimentCache has it: a task of a cache
\* that the service has replaced keeps the flag that cache was left with
OwnerRunning(t) ==
    IF tasks[t].orphan = "no" THEN running ELSE tasks[t].orphan = "running"

FreeIds == {t \in TaskIds : tasks[t].st = "none"}
NewTaskId == CHOOSE t \in FreeIds : \A u \in FreeIds : t <= u

IdleCaller == [pc |-> "idle", awaiting |-> NoTask, liveAtCall |-> {}]

\* start(): a careless variant that creates a task whatever the flag says
StartCreatesAlways(r) == TRUE

\* start(): `if not self._running`
StartCreates(r) == ~r

\* stop(): a careless variant that cancels and awaits whatever the flag says
StopActsAlways(r) == TRUE

\* stop(): `if self._running`
StopActs(r) == r

\* Task.cancel(): a task that is not done gets a CancelledError at its next step
Cancel(ts, t) ==
    IF ts[t].st \in {"ready", "sleeping"}
    THEN [ts EXCEPT ![t].st = "cancelling", ![t].born = 0]
    ELSE ts

\* SentimentCache.start()
start(c) ==
    /\ callers[c].pc = "idle"
    /\ IF StartCreates(running)
       THEN /\ FreeIds # {}
            /\ running' = TRUE
            /\ tasks' = [tasks EXCEPT ![NewTaskId] =
                            [st |-> "ready", wakeAt |-> 0, orphan |-> "no",
                             born |-> now]]
            /\ cleanup_task' = NewTaskId
            /\ lastOp' = Op("start", <<>>, "created", c, NewTaskId)
       ELSE /\ UNCHANGED <<running, tasks, cleanup_task>>
            /\ lastOp' = Op("start", <<>>, "noop", c, NoTask)
    /\ UNCHANGED <<now, cache, callers, lastSet>>
    /\ UNCHANGED httpVars

\* SentimentCache.stop(), up to `await self.cleanup_task` (or to its return
\* when there is nothing to await)
stop(c) ==
    /\ callers[c].pc = "idle"
    /\ LET live == {t \in TaskIds : NotDone(t)} IN
       IF StopActs(running)
       THEN /\ running' = FALSE
            /\ IF cleanup_task # NoTask
               THEN /\ tasks' = Cancel(tasks, cleanup_task)
                    /\ IF tasks'[cleanup_task].st = "done"
                       THEN /\ callers' = callers
                            /\ lastOp' = Op("stop_return", <<>>, live, c, cleanup_task)
                       ELSE /\ callers' = [callers EXCEPT ![c] =
                                  [pc |-> "stop_await", awaiting |-> cleanup_task,
                                   liveAtCall |-> live]]
                            /\ lastOp' = Op("stop_call", <<>>, live, c, cleanup_task)
               ELSE /\ UNCHANGED <<tasks, callers>>
                    /\ lastOp' = Op("stop_return", <<>>, live, c, NoTask)
       ELSE /\ UNCHANGED <<running, tasks, callers>>
            /\ lastOp' = Op("stop_return", <<>>, live, c, NoTask)
    /\ UNCHANGED <<now, cache, cleanup_task, lastSet>>
    /\ UNCHANGED httpVars

\* SentimentCache.stop(), from `await self.cleanup_task` to its return: the
\* awaited task is done, the CancelledError it ends with is swallowed
stop_resume(c) ==
    /\ callers[c].pc = "stop_await"
    /\ tasks[callers[c].awaiting].st = "done"
    /\ callers' = [callers EXCEPT ![c] = IdleCaller]
    /\ lastOp' = Op("stop_return", <<>>, callers[c].liveAtCall, c, callers[c].awaiting)
    /\ UNCHANGED <<now, cache, running, cleanup_task, tasks, lastSet>>
    /\ UNCHANGED httpVars

\* a loop that sleeps twice the interval
SleepUntilLate(t) == t + 2 * cleanup_interval

\* `await asyncio.sleep(self.cleanup_interval.total_seconds())`: when the
\* sleep that starts at t is over
SleepUntil(t) == t + cleanup_interval

\* _cleanup_loop: one step of the task, from one suspension point to the next
cleanup_loop(t) ==
    /\ \/ tasks[t].st = "ready"
       \/ tasks[t].st = "sleeping" /\ now >= tasks[t].wakeAt
       \/ tasks[t].st = "cancelling"
    /\ IF tasks[t].st = "cancelling"
       THEN /\ tasks' = [tasks EXCEPT ![t].st = "done"]
            /\ UNCHANGED <<cache, lastOp>>
       ELSE IF OwnerRunning(t)
       THEN /\ cache' = IF tasks[t].orphan = "no"
                        THEN CleanupExpired(cache, now) ELSE cache
            /\ tasks' = [tasks EXCEPT ![t].st = "sleeping",
                                      ![t].wakeAt = SleepUntil(now)]
            /\ lastOp' = Op("sweep", <<>>,
                            IF tasks[t].orphan = "no"
                            THEN ExpiredKeys(cache, now) ELSE {}, "", t)
       ELSE /\ tasks' = [tasks EXCEPT ![t].st = "done", ![t].born = 0]
            /\ UNCHANGED <<cache, lastOp>>
    /\ UNCHANGED <<now, running, cleanup_task, callers, lastSet>>
    /\ UNCHANGED httpVars

(***************************************************************************)
(* The request schema: SentimentRequest (strict, str_strip_whitespace,     *)
(* min_length 1, max_length 1000, and the validate_text_content validator).*)
(* A JSON body's "text" is a string (a sequence of characters) or not a    *)
(* string at all.                                                          *)
(***************************************************************************)
min_length == 1
max_length == 1000

Str(chars) == [type |-> "str", chars |-> chars]
NotAString == [type |-> "null", chars |-> <<>>]

IsSpace(ch) == ch \in {" ", "\t", "\n"}

\* str.strip(): the text without its leading and trailing whitespace
strip(s) ==
    IF \A i \in 1..Len(s) : IsSpace(s[i]) THEN <<>>
    ELSE LET first == CHOOSE i \in 1..Len(s) :
                        ~IsSpace(s[i]) /\ \A j \in 1..(i - 1) : IsSpace(s[j])
             last == CHOOSE i \in 1..Len(s) :
                        ~IsSpace(s[i]) /\ \A j \in (i + 1)..Len(s) : IsSpace(s[j])
         IN SubSeq(s, first, last)

\* SentimentRequest(**body) succeeds
SentimentRequestValid(body) ==
    /\ body.type = "str"
    /\ Len(strip(body.chars)) >= min_length
    /\ Len(strip(body.chars)) <= max_length
    /\ strip(strip(body.chars)) # <<>>

LowerChar(ch) == IF ch = "A" THEN "a" ELSE ch

\* a schema that also lower-cases the text
SentimentRequestTextLower(body) ==
    [i \in 1..Len(strip(body.chars)) |-> LowerChar(strip(body.chars)[i])]

\* SentimentRequest.text of a valid body
SentimentRequestText(body) == strip(strip(body.chars))

(***************************************************************************)
(* SentimentResponse.sort_scores: sorted(v, key=score, reverse=True), a    *)
(* stable sort in non-increasing order of score.                           *)
(***************************************************************************)
RECURSIVE InsertDesc(_, _)
InsertDesc(sorted, x) ==
    IF sorted = <<>> THEN <<x>>
    ELSE IF Head(sorted).score >= x.score
         THEN <<Head(sorted)>> \o InsertDesc(Tail(sorted), x)
         ELSE <<x>> \o sorted

\* a response model without the validator: the scores as they were given
sort_scores_skipped(v) == v

RECURSIVE sort_scores(_)
sort_scores(v) ==
    IF v = <<>> THEN <<>>
    ELSE InsertDesc(sort_scores(SubSeq(v, 1, Len(v) - 1)), v[Len(v)])

\* SentimentResponse(text=..., scores=...): the scores sorted by the
\* validator, status and message at their defaults
SentimentResponse(text, scores) ==
    [text |-> text, scores |-> sort_scores(scores), status |-> "success",
     message |-> "Analysis completed successfully"]

(***************************************************************************)
(* SentimentAnalyzer.analyze_text.  The transformers pipeline is opaque:   *)
(* its output is drawn from ModelOutputs.  A prediction is a record that   *)
(* may lack the "label" or the "score" field.                              *)
(***************************************************************************)
ModelOutputs ==
    { [kind |-> "list", preds |-> << [label |-> "SADNESS", score |-> 5],
                                     [label |-> "JOY", score |-> 95] >>],
      [kind |-> "list", preds |-> << [label |-> "neutral", score |-> 50],
                                     [invalid |-> "format"] >>],
      [kind |-> "list", preds |-> << [invalid |-> "format"] >>],
      [kind |-> "list", preds |-> <<>>],
      [kind |-> "none", preds |-> <<>>],
      [kind |-> "raise", preds |-> <<>>, msg |-> "CUDA out of memory"],
      [kind |-> "raise", preds |-> <<>>, msg |-> "index out of range"] }

\* str.lower() on the labels the model produces
lower(label) ==
    CASE label = "JOY" -> "joy"
      [] label = "SADNESS" -> "sadness"
      [] label = "NEUTRAL" -> "neutral"
      [] OTHER -> label

HasFields(pred) == "label" \in DOMAIN pred /\ "score" \in DOMAIN pred

\* a loop that stops at the first prediction it can use
PredictionsFirstOnly(preds) ==
    IF \E i \in 1..Len(preds) : HasFields(preds[i])
    THEN LET i == CHOOSE i \in 1..Len(preds) :
                    HasFields(preds[i]) /\ \A j \in 1..(i - 1) : ~HasFields(preds[j])
         IN <<EmotionScoreObj(lower(preds[i].label), preds[i].score)>>
    ELSE <<>>

RECURSIVE Predictions(_)
\* the loop over the predictions: those with both fields, labels lower-cased
Predictions(preds) ==
    IF preds = <<>> THEN <<>>
    ELSE IF HasFields(Head(preds))
         THEN <<EmotionScoreObj(lower(Head(preds).label), Head(preds).score)>>
              \o Predictions(Tail(preds))
         ELSE Predictions(Tail(preds))

\* an analyzer that returns the empty list where analyze_text raises
AnalyzerReturnsEmpty == [kind |-> "ok", scores |-> <<>>, status |-> 200]

AnalyzerOk(scores) == [kind |-> "ok", scores |-> scores, status |-> 200]
\* `raise HTTPException(status_code=e.status_code, ...)` for a ModelError
AnalyzerHTTPException == [kind |-> "HTTPException", scores |-> <<>>, status |-> 500]
\* an exception that is no SentimentAnalyzerError passes through analyze_text
AnalyzerException == [kind |-> "Exception", scores |-> <<>>, status |-> 0]

analyze_text(out) ==
    IF out.kind = "raise" THEN AnalyzerException
    ELSE IF out.kind # "list" \/ out.preds = <<>> THEN AnalyzerHTTPException
    ELSE IF \E i \in 1..Len(out.preds) :
                /\ HasFields(out.preds[i])
                /\ ~EmotionScoreValid([label |-> lower(out.preds[i].label),
                                       score |-> out.preds[i].score])
         THEN AnalyzerException
    ELSE IF Predictions(out.preds) = <<>> THEN AnalyzerHTTPException
    ELSE AnalyzerOk(Predictions(out.preds))

(***************************************************************************)
(* Exception classes.  The cache raises core.errors.CacheError; the        *)
(* service's handlers name the CacheError it imports from utils.errors,    *)
(* a module that defines no class of that name and whose classes derive    *)
(* from another base.                                                      *)
(***************************************************************************)
Bases(cls) ==
    CASE cls = "core.errors.CacheError" ->
            {"core.errors.CacheError", "core.errors.SentimentAnalyzerError", "Exception"}
      [] cls = "core.errors.RateLimitError" ->
            {"core.errors.RateLimitError", "core.errors.SentimentAnalyzerError", "Exception"}
      [] cls = "core.errors.AuthenticationError" ->
            {"core.errors.AuthenticationError", "core.errors.SentimentAnalyzerError", "Exception"}
      [] OTHER -> {cls, "Exception"}

\* `except handler:` catches an exception of class raised
Catches(handler, raised) == handler \in Bases(raised)

\* the class SentimentCache raises (cache.py imports it from core.errors)
CacheRaises == "core.errors.CacheError"

\* the class the service's `except CacheError` names (service.py imports it
\* from utils.errors)
ServiceCatches == "utils.errors.CacheError"

(***************************************************************************)
(* Settings (core/settings.py).  The limits and the window are             *)
(* configuration values; the model instantiates them with small numbers.   *)
(***************************************************************************)
DEFAULT_RATE_LIMIT == 1
KeyLimit1 == 2
KeyLimit2 == 3
WINDOW_SIZE == 2

API_KEYS == {"dev-key-1", "dev-key-2"}

API_RATE_LIMITS == [k \in API_KEYS |-> IF k = "dev-key-1" THEN KeyLimit1 ELSE KeyLimit2]

AnalyzePath == "/api/v1/sentiment/analyze"
HealthPath == "/api/v1/health"

PUBLIC_PATHS == {"/api/v1/docs", "/api/v1/redoc", "/api/v1/openapi.json", HealthPath}
PRIVATE_PATHS == {AnalyzePath}

\* request.headers.get("X-API-Key"): a value, or None
Header(value) == [present |-> TRUE, value |-> value]
NoHeader == [present |-> FALSE, value |-> ""]

\* the truth value of `api_key` in `if api_key` / `if not api_key`
Truthy(hdr) == hdr.present /\ hdr.value # ""

Addrs == {"10.0.0.1"}

RLKeys == {<<"apikey", k>> : k \in API_KEYS} \cup {<<"ip", a>> : a \in Addrs}

\* a limiter that keys every request on the client address
get_rate_limit_key_by_address(hdr, addr) == <<"ip", addr>>

\* RateLimitMiddleware.get_rate_limit_key
get_rate_limit_key(hdr, addr) ==
    IF Truthy(hdr) /\ hdr.value \in API_KEYS
    THEN <<"apikey", hdr.value>>
    ELSE <<"ip", addr>>

\* RateLimitMiddleware.get_rate_limit
get_rate_limit(hdr) ==
    IF Truthy(hdr)
    THEN IF hdr.value \in DOMAIN API_RATE_LIMITS
         THEN API_RATE_LIMITS[hdr.value] ELSE DEFAULT_RATE_LIMIT
    ELSE DEFAULT_RATE_LIMIT

\* a check that takes any non-empty key
verify_api_key_any(value) == value # ""

\* security.verify_api_key
verify_api_key(value) == value # "" /\ value \in API_KEYS

\* the window test with >= in place of >: a window would end one tick early
WindowExpiredEarly(t, reset_time) == t >= reset_time

\* a limiter for which every request opens a new window
WindowExpiredAlways(t, reset_time) == TRUE

\* `if now > reset_time`
WindowExpired(t, reset_time) == t > reset_time

\* the limit test off by one the other way: call N+1 would be let through
OverLimitLate(count, limit) == count > limit + 1

\* the limit test with >= in place of >: the N-th call would be rejected
OverLimitAtLimit(count, limit) == count >= limit

\* `if count > limit`
OverLimit(count, limit) == count > limit

\* a limiter that takes the state it read before it was suspended
StateReadStale(stored, seen) == seen

\* `count, reset_time = self.state.requests[key]`: the state the count is
\* computed from is the stored one, read in the step that writes it back
\* (dispatch has no await between the read and the write)
StateRead(stored, seen) == stored

\* a limiter with one counter for all keys
StoreStateShared(states, key, st) == [k \in DOMAIN states |-> st]

\* `self.state.requests[key] = (count, reset_time)`
StoreState(states, key, st) == [states EXCEPT ![key] = st]

\* a limiter that never opens a new window: it only increments
CountedNoReset(state, t) == <<state[1] + 1, state[2]>>

\* the (count, reset_time) that dispatch stores for a request arriving at t
Counted(state, t) ==
    IF WindowExpired(t, state[2])
    THEN <<1, t + WINDOW_SIZE>>
    ELSE <<state[1] + 1, state[2]>>

\* ErrorHandlingMiddleware.dispatch: the status of the response it makes of an
\* exception (a SentimentAnalyzerError carries its own status_code)
ErrorStatus(cls) ==
    IF Catches("core.errors.SentimentAnalyzerError", cls)
    THEN CASE cls = "core.errors.RateLimitError" -> 429
           [] cls = "core.errors.AuthenticationError" -> 401
           [] OTHER -> 500
    ELSE 500

(***************************************************************************)
(* SentimentService.analyze_sentiment: one call, which has no suspension   *)
(* point, as a function of the service, the dict, the clock and what the   *)
(* model and the cache do during the call.  `trace` lists the calls made   *)
(* to the cache and to the analyzer, in order.                             *)
(***************************************************************************)
\* a service that never takes the cached scores
ServeFromCacheNever(g) == FALSE

\* `if cached_scores is not None`
ServeFromCache(g) == g.kind = "scores"

\* str(e) of the exception that reaches the service's `except Exception`
ExceptionText(svc, got, a, out, sfault) ==
    IF got.kind = "CacheError" THEN "Failed to get cache entry"
    ELSE IF svc.analyzer # "loaded" THEN "500: SentimentAnalyzer is not initialized"
    ELSE IF a.kind = "HTTPException"
    THEN IF out.kind = "list" /\ out.preds # <<>>
         THEN "500: No valid sentiment predictions"
         ELSE "500: Invalid model output format"
    ELSE IF a.kind = "Exception"
    THEN IF out.kind = "raise" THEN out.msg ELSE "validation error for EmotionScore"
    ELSE IF sfault THEN "Failed to set cache entry"
    ELSE ""

\* the `detail` of the HTTPException the service raises, which FastAPI sends
\* as the body {"detail": ...}
ServiceErrorDetail(svc, got, a, out, sfault) ==
    <<"Error processing sentiment analysis: ", ExceptionText(svc, got, a, out, sfault)>>

ServiceResult(status, scores, trace, dict, got, analysed) ==
    [status |-> status, scores |-> scores, trace |-> trace, dict |-> dict,
     got |-> got, analysed |-> analysed]

NotAnalysed == [kind |-> "not called", scores |-> <<>>, status |-> 0]
NotGot == [kind |-> "not called", scores |-> <<>>]

analyze_sentiment(svc, dict, text, t, out, gfault, sfault) ==
    LET got == IF svc.cache THEN CacheGetResult(dict, text, t, gfault) ELSE NotGot
        d1 == IF svc.cache THEN CacheGetDict(dict, text, t, gfault) ELSE dict
        tr1 == IF svc.cache THEN <<"get">> ELSE <<>>
        a == analyze_text(out)
        tr2 == tr1 \o <<"analyze">>
    IN
    IF got.kind = "CacheError" /\ ~Catches(ServiceCatches, CacheRaises)
    THEN ServiceResult(500, <<>>, tr1, d1, got, NotAnalysed)
    ELSE IF svc.cache /\ ServeFromCache(got)
    THEN ServiceResult(200, sort_scores(got.scores), tr1, d1, got, NotAnalysed)
    ELSE IF svc.analyzer # "loaded"
    THEN ServiceResult(500, <<>>, tr1, d1, got, NotAnalysed)
    ELSE IF a.kind # "ok"
    THEN ServiceResult(500, <<>>, tr2, d1, got, a)
    ELSE IF ~svc.cache
    THEN ServiceResult(200, sort_scores(a.scores), tr2, d1, got, a)
    ELSE IF sfault /\ ~Catches(ServiceCatches, CacheRaises)
    THEN ServiceResult(500, <<>>, tr2 \o <<"set">>, d1, got, a)
    ELSE ServiceResult(200, sort_scores(a.scores), tr2 \o <<"set">>,
                       CacheSetDict(d1, text, a.scores, t, sfault), got, a)

(***************************************************************************)
(* The requests in flight.  A request is counted by RateLimitMiddleware,   *)
(* then checked by SecurityMiddleware, then validated and handled by the   *)
(* endpoint; the middlewares suspend at `await call_next(request)`, the    *)
(* endpoint and the service run without suspending.                        *)
(***************************************************************************)
Reqs == {"r1", "r2"}

\* `seen` is the state of the request's key when the request arrived, kept
\* until the rate limiter has counted it; `since` is the time at which the
\* request's analyzer call began, while the request is inside that call
IdleReq == [pc |-> "idle", path |-> "", hdr |-> NoHeader, addr |-> "",
            body |-> NotAString, key |-> <<>>, count |-> 0, limit |-> 0,
            seen |-> <<0, 0>>, since |-> 0]

NoOut == [kind |-> "not called", preds |-> <<>>]

\* the body of a response that is no health report
NoHealth == [status |-> "", model_loaded |-> FALSE]

NoResp == [status |-> 0, stage |-> "", path |-> "", hdr |-> NoHeader,
           body |-> NotAString, text |-> <<>>, scores |-> <<>>, trace |-> <<>>,
           got |-> NotGot, analysed |-> NotAnalysed, sfault |-> FALSE,
           out |-> NoOut, key |-> <<>>, count |-> 0, limit |-> 0, detail |-> <<>>,
           health |-> NoHealth, called |-> 0]

\* the response to request r, sent at `stage`; `called` is the time at which
\* the analyzer was called for it (0 when it was not called)
Resp(r, stage, status, text, res) ==
    [status |-> status, stage |-> stage,
     path |-> reqs[r].path, hdr |-> reqs[r].hdr, body |-> reqs[r].body,
     text |-> text, scores |-> res.scores, trace |-> res.trace,
     got |-> res.got, analysed |-> res.analysed, sfault |-> FALSE,
     out |-> NoOut, key |-> reqs[r].key, count |-> reqs[r].count, limit |-> reqs[r].limit,
     detail |-> <<>>, health |-> NoHealth,
     called |-> IF res.analysed = NotAnalysed THEN 0 ELSE now]

NoService == ServiceResult(0, <<>>, <<>>, <<>>, NotGot, NotAnalysed)

\* history of a key: the window that check_and_increment's contract gives it
\* (a call after reset_at opens a new window; n counts the calls in it),
\* whether the limiter let the last call through, and whether it has ever
\* rejected one
NoGate == [reset_at |-> 0, n |-> 0, allowed |-> TRUE, rejected |-> FALSE,
           passed |-> 0, recent |-> <<>>]

\* `passed` counts the calls of the window that the limiter let through
Gate(g, t, allowed) ==
    IF t > g.reset_at
    THEN [reset_at |-> t + WINDOW_SIZE, n |-> 1, allowed |-> allowed,
          rejected |-> g.rejected \/ ~allowed,
          passed |-> IF allowed THEN 1 ELSE 0, recent |-> g.recent]
    ELSE [reset_at |-> g.reset_at, n |-> g.n + 1, allowed |-> allowed,
          rejected |-> g.rejected \/ ~allowed,
          passed |-> IF allowed THEN g.passed + 1 ELSE g.passed,
          recent |-> g.recent]

\* the same history, which also keeps in `recent` the times of the calls let
\* through during the last WINDOW_SIZE ticks, this call included
GateTimes(g, t, allowed) ==
    LET InReach(u) == u >= t - WINDOW_SIZE IN
    [Gate(g, t, allowed) EXCEPT
        !.recent = SelectSeq(g.recent, InReach) \o (IF allowed THEN <<t>> ELSE <<>>)]

\* a stack with SecurityMiddleware outside RateLimitMiddleware
FirstStageSecurity == "security"

\* setup_middleware: add_middleware puts each middleware around those added
\* before it, so RateLimitMiddleware, added after SecurityMiddleware, is the
\* first of the two to see a request
FirstStage == "ratelimit"

\* a request arrives (the history of the last response starts afresh)
Arrive(r, paths, hdrs, bodies, max) ==
    /\ reqs[r].pc = "idle"
    /\ arrivals < max
    /\ \E path \in paths, hdr \in hdrs, addr \in Addrs, body \in bodies :
          reqs' = [reqs EXCEPT ![r] =
                      [IdleReq EXCEPT !.pc = FirstStage, !.path = path,
                                      !.hdr = hdr, !.addr = addr, !.body = body,
                                      !.seen = IF path \in PUBLIC_PATHS
                                               THEN <<0, 0>>
                                               ELSE requests[get_rate_limit_key(hdr, addr)]]]
    /\ arrivals' = arrivals + 1
    /\ lastResp' = NoResp
    /\ UNCHANGED <<now, requests, service, gated>>
    /\ UNCHANGED cacheVars

\* RateLimitMiddleware.dispatch, up to `await call_next(request)` or to the
\* RateLimitError that ErrorHandlingMiddleware turns into the response;
\* with `times`, the history of the key keeps the times of its calls
RateLimitDispatchWith(r, times) ==
    /\ reqs[r].pc = "ratelimit"
    /\ IF reqs[r].path \in PUBLIC_PATHS
       THEN /\ reqs' = [reqs EXCEPT ![r].pc = "security"]
            /\ UNCHANGED <<requests, gated, lastResp>>
       ELSE LET key == get_rate_limit_key(reqs[r].hdr, reqs[r].addr)
                limit == get_rate_limit(reqs[r].hdr)
                st == Counted(StateRead(requests[key], reqs[r].seen), now)
            IN /\ requests' = StoreState(requests, key, st)
               /\ gated' = [gated EXCEPT ![key] =
                     IF times THEN GateTimes(@, now, ~OverLimit(st[1], limit))
                     ELSE Gate(@, now, ~OverLimit(st[1], limit))]
               /\ IF OverLimit(st[1], limit)
                  THEN /\ lastResp' =
                            [Resp(r, "ratelimit",
                                  ErrorStatus("core.errors.RateLimitError"),
                                  <<>>, NoService)
                               EXCEPT !.key = key, !.count = st[1], !.limit = limit,
                                      !.detail = <<"RATE_LIMIT_ERROR", "Rate limit exceeded">>]
                       /\ reqs' = [reqs EXCEPT ![r] = IdleReq]
                  ELSE /\ reqs' = [reqs EXCEPT ![r].pc = "security", ![r].key = key,
                                               ![r].count = st[1], ![r].limit = limit,
                                               ![r].seen = <<0, 0>>]
                       /\ UNCHANGED lastResp
    /\ UNCHANGED <<now, service, arrivals>>
    /\ UNCHANGED cacheVars

RateLimitDispatch(r) == RateLimitDispatchWith(r, FALSE)

\* SecurityMiddleware.dispatch, up to `await call_next(request)` or to the
\* AuthenticationError that ErrorHandlingMiddleware turns into the response
SecurityDispatch(r) ==
    /\ reqs[r].pc = "security"
    /\ IF reqs[r].path \in PUBLIC_PATHS
       THEN /\ reqs' = [reqs EXCEPT ![r].pc = "endpoint"]
            /\ UNCHANGED lastResp
       ELSE IF reqs[r].path \in PRIVATE_PATHS
                 /\ (~Truthy(reqs[r].hdr) \/ ~verify_api_key(reqs[r].hdr.value))
       THEN /\ lastResp' = [Resp(r, "security",
                                 ErrorStatus("core.errors.AuthenticationError"),
                                 <<>>, NoService)
                               EXCEPT !.detail =
                                  <<"AUTH_ERROR",
                                    IF Truthy(reqs[r].hdr) THEN "Invalid API key"
                                    ELSE "Missing API key">>]
            /\ reqs' = [reqs EXCEPT ![r] = IdleReq]
       ELSE /\ reqs' = [reqs EXCEPT ![r].pc = "endpoint"]
            /\ UNCHANGED lastResp
    /\ UNCHANGED <<now, requests, service, gated, arrivals>>
    /\ UNCHANGED cacheVars

\* the route handler: FastAPI validates the body as a SentimentRequest (422
\* when it fails), then endpoints/sentiment.py analyze_sentiment calls the
\* service with request.text and answers with its scores; an HTTPException
\* of the service becomes the response with its status code
Endpoint(r, outs, gfaults, sfaults) ==
    /\ reqs[r].pc = "endpoint"
    /\ reqs[r].path = AnalyzePath
    /\ IF ~SentimentRequestValid(reqs[r].body)
       THEN /\ lastResp' = Resp(r, "validation", 422, <<>>, NoService)
            /\ UNCHANGED <<cache, lastSet, lastOp>>
       ELSE \E out \in outs, gfault \in gfaults, sfault \in sfaults :
            LET text == SentimentRequestText(reqs[r].body)
                res == analyze_sentiment(service, cache, text, now, out, gfault, sfault)
            IN /\ lastResp' = [Resp(r, "service", res.status, text, res)
                                  EXCEPT !.sfault = sfault,
                                         !.out = IF res.analysed = NotAnalysed
                                                 THEN NoOut ELSE out,
                                         !.detail =
                                            IF res.status = 200 THEN <<>>
                                            ELSE ServiceErrorDetail(service, res.got,
                                                    res.analysed, out, sfault)]
               /\ cache' = res.dict
               /\ lastSet' = IF res.dict[text] # cache[text] /\ res.dict[text] # NoEntry
                             THEN [lastSet EXCEPT ![text] =
                                     [done |-> TRUE, at |-> now,
                                      scores |-> res.analysed.scores,
                                      by |-> reqs[r].body.chars,
                                      resp |-> SentimentResponse(text, res.scores)]]
                             ELSE lastSet
               /\ UNCHANGED lastOp
    /\ reqs' = [reqs EXCEPT ![r] = IdleReq]
    /\ UNCHANGED <<now, running, cleanup_task, tasks, callers>>
    /\ UNCHANGED <<requests, service, gated, arrivals>>

(***************************************************************************)
(* The same route handler in two steps, for the specifications in which    *)
(* the model call takes time.  analyze_text calls the pipeline             *)
(* synchronously (`self.model(text, top_k=None)`), from `async def         *)
(* analyze_sentiment`, with no await and no executor: while the call       *)
(* lasts, the thread of the event loop is inside it, and the event loop    *)
(* runs no other coroutine.  The clock alone moves.                        *)
(***************************************************************************)
\* a model call handed to a worker thread and awaited: the loop stays free
LoopFreeAlways == TRUE

\* the event loop is free to run a step of a coroutine
LoopFree == \A r \in Reqs : reqs[r].pc # "analyzing"

\* the response of the service to request r
ServiceResp(r, text, res, out, called) ==
    [Resp(r, "service", res.status, text, res)
        EXCEPT !.out = IF res.analysed = NotAnalysed THEN NoOut ELSE out,
               !.detail = IF res.status = 200 THEN <<>>
                          ELSE ServiceErrorDetail(service, res.got, res.analysed,
                                                  out, FALSE),
               !.called = called]

\* the route handler up to the model call: validation, cache.get, and the
\* response when the lookup hits or the analyzer is not initialized
AnalyzeBegin(r) ==
    /\ reqs[r].pc = "endpoint"
    /\ reqs[r].path = AnalyzePath
    /\ IF ~SentimentRequestValid(reqs[r].body)
       THEN /\ lastResp' = Resp(r, "validation", 422, <<>>, NoService)
            /\ reqs' = [reqs EXCEPT ![r] = IdleReq]
            /\ UNCHANGED cache
       ELSE LET text == SentimentRequestText(reqs[r].body)
                res == analyze_sentiment(service, cache, text, now, NoOut, FALSE, FALSE)
            IN /\ cache' = res.dict
               /\ IF res.analysed = NotAnalysed
                  THEN /\ lastResp' = ServiceResp(r, text, res, NoOut, 0)
                       /\ reqs' = [reqs EXCEPT ![r] = IdleReq]
                  ELSE /\ reqs' = [reqs EXCEPT ![r].pc = "analyzing",
                                               ![r].since = now]
                       /\ UNCHANGED lastResp
    /\ UNCHANGED <<now, running, cleanup_task, tasks, callers, lastSet, lastOp>>
    /\ UNCHANGED <<requests, service, gated, arrivals>>

\* the route handler from the return of the model call: the predictions are
\* turned into scores, cache.set stores them, and the response is made.  The
\* lookup before the call was a miss and nothing has run since, so the text
\* has no entry
AnalyzeEnd(r, outs) ==
    /\ reqs[r].pc = "analyzing"
    /\ \E out \in outs :
          LET text == SentimentRequestText(reqs[r].body)
              res == analyze_sentiment(service, cache, text, now, out, FALSE, FALSE)
          IN /\ lastResp' = ServiceResp(r, text, res, out, reqs[r].since)
             /\ cache' = res.dict
             /\ lastSet' = IF res.dict[text] # cache[text] /\ res.dict[text] # NoEntry
                           THEN [lastSet EXCEPT ![text] =
                                   [done |-> TRUE, at |-> now,
                                    scores |-> res.analysed.scores,
                                    by |-> reqs[r].body.chars,
                                    resp |-> SentimentResponse(text, res.scores)]]
                           ELSE lastSet
    /\ reqs' = [reqs EXCEPT ![r] = IdleReq]
    /\ UNCHANGED <<now, running, cleanup_task, tasks, callers, lastOp>>
    /\ UNCHANGED <<requests, service, gated, arrivals>>

\* service.get_sentiment_service(): the singleton, created when there is none
\* yet; what it returns is never None
get_sentiment_service(svc) == [none |-> FALSE, service |-> svc]

\* endpoints/health.py health_check: the body it returns
health_check(svc) ==
    LET analyzer == get_sentiment_service(svc)
        model_status == ~analyzer.none
    IN [status |-> IF model_status THEN "healthy" ELSE "degraded",
        model_loaded |-> model_status]

\* endpoints/health.py health_check
Health(r) ==
    /\ reqs[r].pc = "endpoint"
    /\ reqs[r].path = HealthPath
    /\ lastResp' = [Resp(r, "health", 200, <<>>, NoService)
                       EXCEPT !.health = health_check(service)]
    /\ reqs' = [reqs EXCEPT ![r] = IdleReq]
    /\ UNCHANGED <<now, requests, service, gated, arrivals>>
    /\ UNCHANGED cacheVars

\* service.startup(): a new analyzer, a new cache, and the cache started
startup ==
    /\ FreeIds # {}
    /\ service' = [analyzer |-> "loaded", cache |-> TRUE]
    /\ cache' = [k \in Texts |-> NoEntry]
    /\ lastSet' = [k \in Texts |-> NoSet]
    /\ running' = TRUE
    /\ cleanup_task' = NewTaskId
    /\ tasks' = [t \in TaskIds |->
                   IF t = NewTaskId
                   THEN [st |-> "ready", wakeAt |-> 0, orphan |-> "no", born |-> now]
                   ELSE IF tasks[t].orphan = "no" /\ tasks[t].st # "none"
                   THEN [tasks[t] EXCEPT !.orphan =
                            IF running THEN "running" ELSE "stopped"]
                   ELSE tasks[t]]
    /\ lastOp' = Op("start", <<>>, "created", "startup", NewTaskId)
    /\ UNCHANGED <<now, callers>>
    /\ UNCHANGED <<requests, reqs, gated, arrivals, lastResp>>

\* service.shutdown(), up to the await inside cache.stop() (or to its return
\* when stop() has nothing to await); stop_resume is its continuation.
\* analyzer.cleanup() deletes the analyzer's pipeline and keeps the analyzer
\* object, so service.analyzer stays set
shutdown(c) ==
    /\ service.cache
    /\ stop(c)

InitHttpVars ==
    /\ requests = [k \in RLKeys |-> <<0, 0>>]
    /\ reqs = [r \in Reqs |-> IdleReq]
    /\ service = [analyzer |-> "none", cache |-> FALSE]
    /\ gated = [k \in RLKeys |-> NoGate]
    /\ arrivals = 0
    /\ lastResp = NoResp

(***************************************************************************)
(* The cache on its own: any sequence of get, set, start, stop, task steps *)
(* and clock advances on one SentimentCache.                               *)
(***************************************************************************)
InitCacheVars ==
    /\ cache = [k \in Texts |-> NoEntry]
    /\ running = FALSE
    /\ cleanup_task = NoTask
    /\ tasks = [t \in TaskIds |-> NoTaskRec]
    /\ callers = [c \in Callers |-> IdleCaller]
    /\ lastSet = [k \in Texts |-> NoSet]
    /\ lastOp = [op |-> "init", text |-> <<>>, result |-> "none", at |-> 0,
                 who |-> "", task |-> NoTask]

InitCache ==
    /\ now = 1
    /\ InitCacheVars
    /\ InitHttpVars

NextCache ==
    \/ \E text \in Texts : CacheGet(text)
    \/ \E text \in Texts, scores \in ScoreLists : CacheSet(text, scores)
    \/ start("A")
    \/ \E t \in TaskIds : cleanup_loop(t)
    \/ Tick

SpecCache == InitCache /\ [][NextCache]_vars

(***************************************************************************)
(* The life cycle of the sweep task: start() and stop() called by          *)
(* concurrent coroutines, interleaved at stop()'s await.                   *)
(***************************************************************************)
LifeText == <<"a">>
LifeScores == <<EmotionScoreObj("neutral", 50)>>

NextLife ==
    \/ CacheSet(LifeText, LifeScores)
    \/ \E c \in Callers : start(c)
    \/ \E c \in Callers : stop(c)
    \/ \E c \in Callers : stop_resume(c)
    \/ \E t \in TaskIds : cleanup_loop(t)
    \/ Tick

SpecLife == InitCache /\ [][NextLife]_vars

(***************************************************************************)
(* Properties of the cache.                                                *)
(***************************************************************************)

\* C1: get(T) returns the scores S of the most recent set(T, S) when that set
\* is at most ttl old at the time of the get; it returns absent when T was
\* never set or the set is older than ttl, and then T has no entry any more.
C1_GetReturnsFreshSet ==
    lastOp.op = "get" =>
        LET s == lastSet[lastOp.text] IN
        IF s.done /\ lastOp.at - s.at <= ttl
        THEN lastOp.result = Hit(s.scores)
        ELSE lastOp.result = Absent /\ cache[lastOp.text] = NoEntry

\* a get of a text whose most recent set has just become older than ttl
C1_Witness ==
    /\ lastOp.op = "get"
    /\ lastSet[lastOp.text].done
    /\ lastOp.at - lastSet[lastOp.text].at = ttl + 1
    /\ lastOp.result = Absent
    /\ \E k \in Texts : cache[k] # NoEntry

\* C9: start() on a running cache is a no-op (no new task; entries, flag and
\* task handle unchanged), so a running cache has exactly one live sweep task.
C9_StartIdempotent ==
    /\ [](running => Cardinality({t \in TaskIds : Live(t)}) = 1)
    /\ [][(running /\ lastOp'.op = "start" /\ lastOp' # lastOp)
            => /\ lastOp'.result = "noop"
               /\ UNCHANGED <<tasks, cache, running, cleanup_task>>]_vars

\* start() has just been called on a running cache that holds an entry
C9_Witness ==
    /\ lastOp.op = "start"
    /\ lastOp.result = "noop"
    /\ running
    /\ cache[LifeText] # NoEntry
    /\ Cardinality({t \in TaskIds : tasks[t].st # "none"}) >= 2

\* C10: when a call of stop() returns, every sweep task that had not
\* terminated when that stop() was called has terminated.
C10_StopReturnsAfterTaskDone ==
    lastOp.op = "stop_return" =>
        \A t \in lastOp.result : tasks[t].st = "done"

(***************************************************************************)
(* The middlewares in front of the service: requests with any header and   *)
(* any body, the model and the cache working.                              *)
(***************************************************************************)
MaxArrivals == 3

\* the requests of these specifications come one after the other
Clients == {"r1"}

Headers == {NoHeader, Header(""), Header("invalid-key"), Header("dev-key-1")}

LongText == [i \in 1..(max_length + 1) |-> "a"]

Bodies == {Str(<<>>), Str(<<" ">>), Str(<<"a">>), Str(<<" ", "a">>),
           Str(LongText), NotAString}

GoodOutput == [kind |-> "list", preds |-> << [label |-> "SADNESS", score |-> 5],
                                             [label |-> "JOY", score |-> 95] >>]

Init ==
    /\ now = 1
    /\ InitCacheVars
    /\ InitHttpVars

\* the application runs startup() once, before it serves its first request
AppStartup ==
    /\ ~service.cache
    /\ arrivals = 0
    /\ startup

Next ==
    \/ AppStartup
    \/ \E r \in Clients : Arrive(r, {AnalyzePath}, Headers, Bodies, MaxArrivals)
    \/ \E r \in Clients : RateLimitDispatch(r)
    \/ \E r \in Clients : SecurityDispatch(r)
    \/ \E r \in Clients : Endpoint(r, {GoodOutput}, {FALSE}, {FALSE})
    \/ Tick

Spec == Init /\ [][Next]_vars

(***************************************************************************)
(* The service: authenticated requests with valid texts, a model whose     *)
(* output may be unusable, a cache that may fail, the sweep and the clock. *)
(***************************************************************************)
MaxCalls == 3

ValidBodies == {Str(<<"a">>), Str(<<" ", "a">>), Str(<<"A">>)}

NextService ==
    \/ AppStartup
    \/ \E r \in Clients : Arrive(r, {AnalyzePath}, {Header("dev-key-1")}, ValidBodies, MaxCalls)
    \/ \E r \in Clients : RateLimitDispatch(r)
    \/ \E r \in Clients : SecurityDispatch(r)
    \/ \E r \in Clients : Endpoint(r, ModelOutputs, BOOLEAN, BOOLEAN)
    \/ \E t \in TaskIds : cleanup_loop(t)
    \/ Tick

SpecService == Init /\ [][NextService]_vars

(***************************************************************************)
(* Properties of the rate limiter, the key check and the validation.       *)
(***************************************************************************)
\* the limit N of a rate-limit key
KeyLimit(k) == IF k[1] = "apikey" THEN API_RATE_LIMITS[k[2]] ELSE DEFAULT_RATE_LIMIT

Responded == lastResp.status # 0

Count(seq, x) == Cardinality({i \in 1..Len(seq) : seq[i] = x})

\* the two sequences hold the same elements, each as often
Perm(a, b) ==
    /\ Len(a) = Len(b)
    /\ \A i \in 1..Len(a) : Count(a, a[i]) = Count(b, a[i])

\* C2: in every window of a key with limit N >= 1 the calls 1..N are allowed
\* and call N+1 and every later one is rejected; the first call after the
\* window's reset_at (call 1 of a new window) is allowed again.
C2_WindowLimit ==
    \A k \in RLKeys :
        gated[k].n >= 1 => (gated[k].allowed <=> gated[k].n <= KeyLimit(k))

\* the first call of a new window of a key whose earlier window overflowed
C2_Witness ==
    \E k \in RLKeys :
        /\ gated[k].rejected
        /\ gated[k].n = 1
        /\ gated[k].allowed
        /\ requests[k] = <<1, now + WINDOW_SIZE>>

\* the texts that fail validation: empty, whitespace only, too long, no string
InvalidBodies == {Str(<<>>), Str(<<" ">>), Str(LongText), NotAString}

\* C4: a request whose text fails validation is answered with 422, and
\* neither the cache nor the analyzer is called for it.
C4_InvalidTextIs422 ==
    (Responded /\ lastResp.path = AnalyzePath /\ lastResp.body \in InvalidBodies)
        => (lastResp.status = 422 /\ lastResp.trace = <<>>)

\* the X-API-Key header is missing, empty or not a configured key
BadKey(hdr) == ~hdr.present \/ hdr.value = "" \/ hdr.value \notin API_KEYS

C8_OverLimitIs429 ==
    /\ (Responded /\ lastResp.count > KeyLimit(lastResp.key))
            => /\ lastResp.status = 429
               /\ lastResp.stage = "ratelimit"
               /\ lastResp.trace = <<>>
    /\ \A r \in Reqs :
          reqs[r].pc \in {"security", "endpoint"} /\ reqs[r].path = AnalyzePath
            => reqs[r].count <= KeyLimit(reqs[r].key)

\* a request with a valid key and a valid text has been rejected as over limit
C8_Witness ==
    /\ Responded
    /\ lastResp.status = 429
    /\ lastResp.hdr = Header("dev-key-1")
    /\ lastResp.body = Str(<<"a">>)
    /\ lastResp.count = KeyLimit1 + 1

(***************************************************************************)
(* Properties of the service.                                              *)
(***************************************************************************)
\* C3: on a hit the service answers with the cached scores, calls only
\* cache.get and leaves the cache as it was; on a miss it calls the
\* analyzer exactly once and, the analysis done, stores its scores under the
\* request text and answers with them.
C3_HitMissFlow ==
    [][(/\ lastResp' # lastResp
        /\ lastResp'.stage = "service"
        /\ service.cache
        /\ lastResp'.got.kind # "CacheError")
       => LET r == lastResp'
              t == lastResp'.text
          IN IF cache[t] # NoEntry /\ now - cache[t].timestamp <= ttl
             THEN /\ r.status = 200
                  /\ r.trace = <<"get">>
                  /\ Perm(MapSeq(r.scores, model_dump), cache[t].scores)
                  /\ cache' = cache
             ELSE /\ Count(r.trace, "analyze") = 1
                  /\ (r.analysed.kind = "ok" /\ ~r.sfault)
                       => /\ r.trace = <<"get", "analyze", "set">>
                          /\ cache'[t] = [present |-> TRUE, timestamp |-> now,
                                          scores |-> MapSeq(r.analysed.scores, model_dump)]
                          /\ r.status = 200
                          /\ r.analysed.scores # <<>>
                          /\ Perm(r.scores, r.analysed.scores)]_vars

\* a request has been served from the cache
C3_Witness ==
    /\ lastResp.stage = "service"
    /\ lastResp.status = 200
    /\ lastResp.got.kind = "scores"
    /\ lastResp.trace = <<"get">>
    /\ Len(lastResp.scores) = 2

\* C5: a CacheError of cache.get is taken as a miss (the analyzer is called
\* and, its analysis done, the request succeeds), and a CacheError of
\* cache.set is swallowed (the analyzer's scores are returned).
C5_CacheErrorsNeverFail ==
    (Responded /\ lastResp.stage = "service") =>
        /\ lastResp.got.kind = "CacheError"
              => Count(lastResp.trace, "analyze") = 1
        /\ (lastResp.sfault /\ Count(lastResp.trace, "set") = 1)
              => /\ lastResp.status = 200
                 /\ Perm(lastResp.scores, lastResp.analysed.scores)

\* the model raises, or its output holds no prediction with both fields
OutputFails(out) ==
    \/ out.kind \in {"raise", "none"}
    \/ out.kind = "list" /\ \A i \in 1..Len(out.preds) : ~HasFields(out.preds[i])

\* C6 as stated: when the analyzer fails the request ends with 500, the
\* analyzer has been called once only, and the cache is unchanged.
C6_AnalyzerFailureLeavesCache ==
    [][(/\ lastResp' # lastResp
        /\ lastResp'.stage = "service"
        /\ OutputFails(lastResp'.out))
       => /\ lastResp'.status = 500
          /\ Count(lastResp'.trace, "analyze") = 1
          /\ cache' = cache]_vars

\* C6 as amended: when the analyzer fails the request ends with 500, the
\* analyzer has been called once only, and nothing is stored: the text has
\* no entry afterwards and the entries of the other texts are unchanged (the
\* lookup before the analysis may have evicted the text's expired entry).
C6_AnalyzerFailureStoresNothing ==
    [][(/\ lastResp' # lastResp
        /\ lastResp'.stage = "service"
        /\ OutputFails(lastResp'.out))
       => /\ lastResp'.status = 500
          /\ Count(lastResp'.trace, "analyze") = 1
          /\ Count(lastResp'.trace, "set") = 0
          /\ cache'[lastResp'.text] = NoEntry
          /\ \A k \in Texts : k # lastResp'.text => cache'[k] = cache[k]
          /\ cache[lastResp'.text] # NoEntry
                => now - cache[lastResp'.text].timestamp > ttl]_vars

\* the analyzer has failed on a text while another text is cached
C6_Witness ==
    /\ lastResp.stage = "service"
    /\ lastResp.status = 500
    /\ OutputFails(lastResp.out)
    /\ lastResp.trace = <<"get", "analyze">>
    /\ \E k \in Texts : k # lastResp.text /\ cache[k] # NoEntry

(***************************************************************************)
(* Properties of the cache's life cycle and of its sweep.                  *)
(***************************************************************************)
\* a call of stop() by an idle coroutine (not the resumption of an earlier one)
StopCalled ==
    /\ lastOp' # lastOp
    /\ lastOp'.op \in {"stop_call", "stop_return"}
    /\ callers[lastOp'.who].pc = "idle"

\* C11: stop() on a cache that is not running (never started, or stopped
\* already) returns at once, creates and cancels no task, and leaves the
\* running flag, the task reference and all entries as they were.
C11_StopWhenNotStarted ==
    [][(StopCalled /\ ~running)
        => /\ lastOp'.op = "stop_return"
           /\ callers' = callers
           /\ UNCHANGED <<tasks, running, cleanup_task, cache>>]_vars

\* stop() has returned on a stopped cache that holds an entry, while the task
\* the first stop() cancelled has not yet terminated
C11_Witness ==
    /\ lastOp.op = "stop_return"
    /\ lastOp.task = NoTask
    /\ ~running
    /\ cleanup_task # NoTask
    /\ tasks[cleanup_task].st = "cancelling"
    /\ cache[LifeText] # NoEntry

\* a sweep iteration of task lastOp'.task
Swept ==
    /\ lastOp'.op = "sweep"
    /\ tasks'[lastOp'.task] # tasks[lastOp'.task]
    /\ tasks[lastOp'.task].orphan = "no"

\* C12: a sweep iteration of the running cache removes every entry whose age
\* now - timestamp is greater than ttl and no entry whose age is at most
\* ttl; the entries that stay keep their scores and their timestamp.
C12_SweepRemovesExpiredOnly ==
    [][Swept =>
        \A k \in Texts :
            IF cache[k] # NoEntry /\ now - cache[k].timestamp > ttl
            THEN cache'[k] = NoEntry
            ELSE cache'[k] = cache[k]]_vars

\* a sweep has removed an entry and kept one whose age is exactly ttl
C12_Witness ==
    /\ lastOp.op = "sweep"
    /\ lastOp.result # {}
    /\ \A k \in lastOp.result : cache[k] = NoEntry
    /\ \E k \in Texts : cache[k] # NoEntry /\ now - cache[k].timestamp = ttl

(***************************************************************************)
(* The sweep in time: the event loop is free, so a task that is ready, or  *)
(* whose sleep is over, or that has been cancelled, takes its step before  *)
(* the clock moves on.                                                     *)
(***************************************************************************)
MaxSweepTime == 6

\* the event loop has a step of task t to run
Due(t) ==
    \/ tasks[t].st \in {"ready", "cancelling"}
    \/ tasks[t].st = "sleeping" /\ tasks[t].wakeAt <= now

Quiescent == \A t \in TaskIds : ~Due(t)

\* the clock advances while the event loop has nothing to run
TickIdle ==
    /\ Quiescent
    /\ now < MaxSweepTime
    /\ now' = now + 1
    /\ UNCHANGED cacheVars
    /\ UNCHANGED httpVars

NextSweep ==
    \/ \E text \in Texts : CacheSet(text, LifeScores)
    \/ start("A")
    \/ stop("A")
    \/ stop_resume("A")
    \/ \E t \in TaskIds : cleanup_loop(t)
    \/ TickIdle

SpecSweep == InitCache /\ [][NextSweep]_vars

\* the cache has been running for more than cleanup_interval since start()
WaitedSinceStart ==
    /\ running
    /\ Quiescent
    /\ cleanup_task # NoTask
    /\ Live(cleanup_task)
    /\ now - tasks[cleanup_task].born > cleanup_interval

\* C13 as stated: once the started cache has run for more than
\* cleanup_interval, no entry inserted before the wait with an age greater
\* than ttl is left in the dict, although no get was issued.
C13_ExpiredAbsentAfterWait ==
    WaitedSinceStart =>
        \A k \in Texts :
            (cache[k] # NoEntry /\ cache[k].timestamp <= tasks[cleanup_task].born)
                => now - cache[k].timestamp <= ttl

\* C13 as amended: once the started cache has run for more than
\* cleanup_interval, no entry inserted before the wait whose age has reached
\* ttl + cleanup_interval is left in the dict, although no get was issued;
\* an entry whose age passed ttl after the latest sweep is still there.
C13_ExpiredAbsentAfterNextSweep ==
    WaitedSinceStart =>
        \A k \in Texts :
            (cache[k] # NoEntry /\ cache[k].timestamp <= tasks[cleanup_task].born)
                => now - cache[k].timestamp < ttl + cleanup_interval

\* an entry set before start() is gone after ttl + cleanup_interval
C13_Witness ==
    /\ WaitedSinceStart
    /\ \E k \in Texts :
          /\ lastSet[k].done
          /\ lastSet[k].at <= tasks[cleanup_task].born
          /\ now - lastSet[k].at >= ttl + cleanup_interval
          /\ cache[k] = NoEntry

(***************************************************************************)
(* The cache key: authenticated requests whose texts differ in leading     *)
(* whitespace or in letter case only, a model that works, a cache that     *)
(* does not fail.                                                          *)
(***************************************************************************)
KeyBodies == {Str(<<"a">>), Str(<<" ", "a">>), Str(<<"A">>)}

NextKeys ==
    \/ AppStartup
    \/ \E r \in Clients : Arrive(r, {AnalyzePath}, {Header("dev-key-2")}, KeyBodies, MaxCalls)
    \/ \E r \in Clients : RateLimitDispatch(r)
    \/ \E r \in Clients : SecurityDispatch(r)
    \/ \E r \in Clients : Endpoint(r, {GoodOutput}, {FALSE}, {FALSE})
    \/ \E t \in TaskIds : cleanup_loop(t)
    \/ Tick

SpecKeys == Init /\ [][NextKeys]_vars

\* the last response was served from the cache
ServedFromCache ==
    /\ lastResp.stage = "service"
    /\ lastResp.status = 200
    /\ lastResp.trace = <<"get">>

\* C14 as stated: a request is served from the cache only if the entry was
\* stored for a request with exactly the same text; requests whose texts
\* differ, be it in whitespace or in letter case only, miss each other.
C14_KeyIsExactText ==
    ServedFromCache => lastSet[lastResp.text].by = lastResp.body.chars

\* C14 as amended: the key is the request text with its leading and trailing
\* whitespace stripped; a request is served from the cache only if the entry
\* was stored for a request whose stripped text is the same, so texts that
\* differ in letter case (or anywhere but at their ends) miss each other.
C14_KeyIsStrippedText ==
    ServedFromCache =>
        /\ lastSet[lastResp.text].done
        /\ strip(lastSet[lastResp.text].by) = strip(lastResp.body.chars)

\* "A" has been analysed afresh while "a" is cached, and then served from
\* its own entry
C14_Witness ==
    /\ ServedFromCache
    /\ lastResp.body = Str(<<"A">>)
    /\ lastSet[<<"A">>].done /\ lastSet[<<"A">>].by = <<"A">>
    /\ cache[<<"a">>] # NoEntry
    /\ cache[<<"a">>].timestamp < cache[<<"A">>].timestamp

(***************************************************************************)
(* Properties of the responses.                                            *)
(***************************************************************************)
NonIncreasing(v) == \A i \in 1..(Len(v) - 1) : v[i].score >= v[i + 1].score

\* C15: a successful analyze response, served from the cache or analysed
\* afresh, lists its scores in non-increasing order of score, and the list
\* is a permutation of the scores the analyzer produced for the text.
C15_ScoresSortedPermutation ==
    (Responded /\ lastResp.stage = "service" /\ lastResp.status = 200) =>
        /\ lastResp.scores # <<>>
        /\ NonIncreasing(lastResp.scores)
        /\ lastSet[lastResp.text].done
        /\ Perm(lastResp.scores, lastSet[lastResp.text].scores)
        /\ lastResp.analysed # NotAnalysed
              => Perm(lastResp.scores, lastResp.analysed.scores)

\* a response served from the cache lists in descending order the scores
\* that the analyzer produced, and the cache holds, in ascending order
C15_Witness ==
    /\ ServedFromCache
    /\ Len(lastResp.scores) = 2
    /\ lastResp.scores[1].score > lastResp.scores[2].score
    /\ lastSet[lastResp.text].scores[1].score < lastSet[lastResp.text].scores[2].score
    /\ cache[lastResp.text].scores[1].score < cache[lastResp.text].scores[2].score

\* C16: an error body holds a stable code and message only, never the text
\* of the internal exception: two failing requests that differ only in the
\* text of the exception the model raised get the same status and body.
C16_ErrorBodyHidesExceptionText ==
    (Responded /\ lastResp.status >= 400 /\ lastResp.out.kind = "raise") =>
        \A i \in 1..Len(lastResp.detail) : lastResp.detail[i] # lastResp.out.msg

\* the key the contract gives a request: its API key when the header holds a
\* configured key, the client address otherwise
ContractKey(hdr, addr) ==
    IF hdr.present /\ hdr.value \in API_KEYS
    THEN <<"apikey", hdr.value>>
    ELSE <<"ip", addr>>

\* C17: the rate limiter counts a request under 'apikey:<key>' exactly when
\* its X-API-Key header holds one of the configured API_KEYS, and under
\* 'ip:<address>' in every other case (no header, or a key that is not
\* valid): that key's counter is the one it updates, and no other.
C17_RateLimitKey ==
    [][\A r \in Reqs :
          (/\ reqs[r].pc = "ratelimit"
           /\ reqs'[r].pc # "ratelimit"
           /\ reqs[r].path \notin PUBLIC_PATHS)
          => LET k == ContractKey(reqs[r].hdr, reqs[r].addr) IN
             /\ requests'[k] # requests[k]
             /\ \A j \in RLKeys : j # k => requests'[j] = requests[j]]_vars

\* a request with a key that is not configured has been counted under the
\* client address, after one counted under its API key
C17_Witness ==
    /\ reqs["r1"].pc = "security"
    /\ reqs["r1"].hdr = Header("invalid-key")
    /\ reqs["r1"].key = <<"ip", "10.0.0.1">>
    /\ requests[<<"ip", "10.0.0.1">>][1] = 1
    /\ requests[<<"apikey", "dev-key-1">>][1] >= 1

\* C18: a request passes VALIDATE, then AUTH/RATE_LIMIT, then CACHE_LOOKUP,
\* then RESPOND (hit) or ANALYZE, CACHE_STORE, RESPOND (miss): a request
\* that the rate limiter has counted, or that the key check sees or has
\* rejected, has a text that passed validation, and a request that reached
\* the cache has a valid key and is within its limit.
C18_StageOrder ==
    /\ \A r \in Reqs :
          (reqs[r].pc \in {"security", "endpoint"} /\ reqs[r].path = AnalyzePath)
              => SentimentRequestValid(reqs[r].body)
    /\ (Responded /\ lastResp.stage \in {"ratelimit", "security"})
          => SentimentRequestValid(lastResp.body)
    /\ (Responded /\ lastResp.trace # <<>>)
          => /\ ~BadKey(lastResp.hdr)
             /\ lastResp.count <= lastResp.limit
             /\ lastResp.trace \in {<<"get">>, <<"get", "analyze">>,
                                    <<"get", "analyze", "set">>}

(***************************************************************************)
(* Properties of the analyzer.                                             *)
(***************************************************************************)
BothFields(pred) == {"label", "score"} \subseteq DOMAIN pred

ToScore(pred) == EmotionScoreObj(lower(pred.label), pred.score)

\* the model output was handed to analyze_text and this came of it
Analysed == Responded /\ lastResp.analysed # NotAnalysed /\ lastResp.out # NoOut

NextHealth ==
    \/ (~service.cache /\ startup)
    \/ \E r \in Clients : Arrive(r, {HealthPath}, Headers, {NotAString}, MaxCalls)
    \/ \E r \in Clients : RateLimitDispatch(r)
    \/ \E r \in Clients : SecurityDispatch(r)
    \/ \E r \in Clients : Health(r)
    \/ Tick

SpecHealth == Init /\ [][NextHealth]_vars

\* C20: the health endpoint reports model_loaded = true and status
\* "healthy" exactly when the service's analyzer is loaded; in every other
\* state it reports model_loaded = false and "degraded" or "unhealthy".
C20_HealthReportsModel ==
    [][(lastResp' # lastResp /\ lastResp'.stage = "health")
        => IF service.analyzer = "loaded"
           THEN /\ lastResp'.health.model_loaded
                /\ lastResp'.health.status = "healthy"
           ELSE /\ ~lastResp'.health.model_loaded
                /\ lastResp'.health.status \in {"degraded", "unhealthy"}]_vars

(***************************************************************************)
(* Frame of the cache's lookup.                                            *)
(***************************************************************************)
\* a call of get(): the step's cache operation is a get at the present time
GetCalled == lastOp'.op = "get" /\ now' = now /\ lastSet' = lastSet

\* C21: get(T) changes the dict only by deleting T's own entry when that
\* entry is expired, and then returns absent; a hit and a lookup of an absent
\* key leave the whole dict as it was (no timestamp is refreshed), and the
\* entry of no other key is touched.
C21_GetFrame ==
    [][GetCalled =>
        LET T == lastOp'.text IN
        IF cache[T] # NoEntry /\ now - cache[T].timestamp > ttl
        THEN /\ cache' = [cache EXCEPT ![T] = NoEntry]
             /\ lastOp'.result = Absent
        ELSE cache' = cache]_vars

\* a get has evicted the expired entry of its text and left the entry of the
\* other text, expired as well, in the dict
C21_Witness ==
    /\ lastOp.op = "get"
    /\ lastOp.at = now
    /\ lastOp.result = Absent
    /\ lastSet[lastOp.text].done
    /\ cache[lastOp.text] = NoEntry
    /\ \E k \in Texts :
          k # lastOp.text /\ cache[k] # NoEntry /\ now - cache[k].timestamp > ttl

(***************************************************************************)
(* The state the rate limiter keeps for a key.                             *)
(***************************************************************************)
\* request r is counted by the rate limiter in this step
Counting(r) ==
    /\ reqs[r].pc = "ratelimit"
    /\ reqs'[r].pc # "ratelimit"
    /\ reqs[r].path \notin PUBLIC_PATHS

\* C22: when a gated request arriving at time now has been counted, the
\* stored state of its key has reset_at >= now and count >= 1; when it
\* arrives with now > reset_at (a key's first request included) the state is
\* reset before the request is counted, so that (1, now + window) is stored.
C22_WindowInFuture ==
    [][\A r \in Reqs :
          Counting(r)
          => LET k == ContractKey(reqs[r].hdr, reqs[r].addr) IN
             /\ requests'[k][2] >= now
             /\ requests'[k][1] >= 1
             /\ now > requests[k][2]
                   => requests'[k] = <<1, now + WINDOW_SIZE>>]_vars

\* a request has been counted as the first of a new window of a key whose
\* earlier window had overflowed, and waits for the key check
C22_Witness ==
    \E r \in Reqs :
        /\ reqs[r].pc = "security"
        /\ reqs[r].count = 1
        /\ gated[reqs[r].key].rejected
        /\ requests[reqs[r].key] = <<1, now + WINDOW_SIZE>>
        /\ now > 1 + WINDOW_SIZE

(***************************************************************************)
(* Concurrent requests: two requests in flight, interleaved at the         *)
(* suspension points of the middlewares, a model call that takes time and  *)
(* may fail, the sweep and the clock.                                      *)
(***************************************************************************)
ConcHeaders == {Header("dev-key-1"), NoHeader}
ConcBodies == {Str(<<"a">>)}
ConcOutputs == {GoodOutput, [kind |-> "raise", preds |-> <<>>, msg |-> "CUDA out of memory"]}

NextConc ==
    \/ LoopFree /\ AppStartup
    \/ LoopFree /\ \E r \in Reqs : Arrive(r, {AnalyzePath}, ConcHeaders, ConcBodies, MaxCalls)
    \/ LoopFree /\ \E r \in Reqs : RateLimitDispatch(r)
    \/ LoopFree /\ \E r \in Reqs : SecurityDispatch(r)
    \/ LoopFree /\ \E r \in Reqs : AnalyzeBegin(r)
    \/ \E r \in Reqs : AnalyzeEnd(r, ConcOutputs)
    \/ LoopFree /\ \E t \in TaskIds : cleanup_loop(t)
    \/ Tick

SpecConc == Init /\ [][NextConc]_vars

Min(a, b) == IF a <= b THEN a ELSE b

InFlight(r) == reqs[r].pc \in {"security", "endpoint", "analyzing"}

\* C23: the limiter reads, resets, increments and writes a key's state in
\* one step, so under every interleaving of concurrent requests, after n
\* requests of a key have been gated within one window the stored count is
\* exactly n and exactly min(n, limit) of them were allowed.
C23_NoLostUpdate ==
    \A k \in RLKeys :
        gated[k].n >= 1 =>
            /\ requests[k] = <<gated[k].n, gated[k].reset_at>>
            /\ gated[k].passed = Min(gated[k].n, KeyLimit(k))

\* a request of a key has been rejected as call N+1 of the key's window
\* while an earlier request of that window is still in flight
C23_Witness ==
    \E k \in RLKeys, r \in Reqs :
        /\ InFlight(r) /\ reqs[r].key = k
        /\ lastResp.status = 429 /\ lastResp.key = k
        /\ gated[k].n = KeyLimit(k) + 1
        /\ gated[k].passed = KeyLimit(k)
        /\ requests[k][1] = KeyLimit(k) + 1

\* C24: there is one counter and one window per key: gating a request under
\* key k reads and writes the state of k only (what is stored for k depends
\* on k's state and the clock), and the state of every other key stays as it
\* was, whether the request is allowed or rejected; no other step of a
\* request changes the limiter's state.
C24_OtherKeysUntouched ==
    [][/\ \A r \in Reqs :
            Counting(r)
            => LET k == ContractKey(reqs[r].hdr, reqs[r].addr) IN
               /\ requests'[k] \in {<<1, now + WINDOW_SIZE>>,
                                    <<requests[k][1] + 1, requests[k][2]>>}
               /\ \A j \in RLKeys : j # k => requests'[j] = requests[j]
       /\ requests' # requests => \E r \in Reqs : Counting(r)]_vars

\* a request has been rejected under one key while the window of another
\* key, opened before, still holds its count
C24_Witness ==
    \E k, j \in RLKeys :
        /\ j # k
        /\ lastResp.status = 429 /\ lastResp.key = k
        /\ requests[k][1] > KeyLimit(k)
        /\ requests[j][1] >= 1
        /\ requests[j] = <<gated[j].n, gated[j].reset_at>>
        /\ requests[j][2] <= requests[k][2]

(***************************************************************************)
(* Properties of the model call among concurrent requests.                 *)
(***************************************************************************)
\* C25: a slow analyzer call blocks the requesting task only: while one
\* request is inside its analyzer call, another request in flight can take
\* its rate-limit check, another can take its cache lookup, and a sweep
\* task whose step is due can run its iteration.
C25_SlowCallBlocksOnlyCaller ==
    \A r \in Reqs :
        reqs[r].pc = "analyzing" =>
            /\ \A q \in Reqs :
                  reqs[q].pc = "ratelimit" => ENABLED (LoopFree /\ RateLimitDispatch(q))
            /\ \A q \in Reqs :
                  reqs[q].pc = "endpoint" => ENABLED (LoopFree /\ AnalyzeBegin(q))
            /\ \A t \in TaskIds :
                  Due(t) => ENABLED (LoopFree /\ cleanup_loop(t))

(***************************************************************************)
(* The life cycle of the service: startup() and shutdown() called any      *)
(* number of times, together with start() and stop() on the service's      *)
(* cache, interleaved at stop()'s await.                                   *)
(***************************************************************************)
NextBoot ==
    \/ startup
    \/ \E c \in Callers : shutdown(c)
    \/ \E c \in Callers : start(c)
    \/ \E c \in Callers : stop(c)
    \/ \E c \in Callers : stop_resume(c)
    \/ \E t \in TaskIds : cleanup_loop(t)
    \/ Tick

SpecBoot == Init /\ [][NextBoot]_vars

\* C26: at every moment at most one sweep task that is neither cancelled nor
\* finished exists in the process, whatever the sequence and interleaving
\* of start(), stop(), startup() and shutdown() calls, startup() called
\* more than once included.
C26_AtMostOneSweepTask ==
    Cardinality({t \in TaskIds : Live(t)}) <= 1

\* the text request r asks about
TextOf(r) == SentimentRequestText(reqs[r].body)

\* C27 as stated: with the cache present and raising no error, the analyzer
\* is invoked at most once for a text within one ttl period, under every
\* interleaving of concurrent requests with that text.
C27_AnalyzerOncePerTtl ==
    \A r \in Reqs :
        (/\ reqs[r].pc = "analyzing"
         /\ lastResp.called # 0
         /\ lastResp.text = TextOf(r))
        => reqs[r].since - lastResp.called > ttl

\* C27 as amended: with the cache present and raising no error, once an
\* analyzer call for a text has succeeded, its scores are stored before any
\* other request runs, and the analyzer is not invoked for that text again
\* until the entry is older than ttl, under every interleaving of
\* concurrent requests with that text.  (A call that fails stores nothing,
\* and the next request for the text invokes the analyzer again.)
C27_AnalyzerOncePerStoredEntry ==
    \A r \in Reqs :
        reqs[r].pc = "analyzing" =>
            /\ lastSet[TextOf(r)].done
                  => reqs[r].since - lastSet[TextOf(r)].at > ttl
            /\ (/\ lastResp.called # 0
                /\ lastResp.status = 200
                /\ lastResp.text = TextOf(r))
                  => reqs[r].since - lastResp.called > ttl
            /\ cache[TextOf(r)] = NoEntry

\* of two requests with the same text in flight at once, the second has
\* been served from the entry that the first one's analysis stored at this
\* very time
C27_Witness ==
    /\ ServedFromCache
    /\ lastResp.called = 0
    /\ lastSet[lastResp.text].done
    /\ lastSet[lastResp.text].at = now
    /\ cache[lastResp.text] # NoEntry
    /\ cache[lastResp.text].timestamp = now
    /\ arrivals = 2

(***************************************************************************)
(* The response of a hit against the response of the miss before it.       *)
(***************************************************************************)
\* C28: a response served from the cache is identical to the response of
\* the miss that populated the entry: the same text, the same (label, score)
\* pairs in the same order, the same status and message; model_dump on set
\* and the EmotionScore construction on get give back the analyzer's scores
\* without loss or reordering.
C28_HitEqualsMiss ==
    ServedFromCache =>
        /\ lastSet[lastResp.text].done
        /\ SentimentResponse(lastResp.text, lastResp.scores)
              = lastSet[lastResp.text].resp
        /\ lastResp.scores = lastSet[lastResp.text].resp.scores
        /\ lastResp.got.scores = lastSet[lastResp.text].scores

\* a request with text "a" has been served from the entry that a request
\* with text " a" populated; the entry holds the scores in the analyzer's
\* order, lowest first
C28_Witness ==
    /\ ServedFromCache
    /\ lastResp.body = Str(<<"a">>)
    /\ lastSet[lastResp.text].by = <<" ", "a">>
    /\ Len(lastResp.scores) = 2
    /\ cache[lastResp.text].scores[1].score < cache[lastResp.text].scores[2].score
    /\ lastResp.scores[1].score > lastResp.scores[2].score

(***************************************************************************)
(* The windows of one key in time: requests with one API key, one after    *)
(* the other, at any times; the limiter keeps the times of the calls it    *)
(* let through.                                                            *)
(***************************************************************************)
MaxGated == 5

NextWindow ==
    \/ \E r \in Clients : Arrive(r, {AnalyzePath}, {Header("dev-key-1")}, ConcBodies, MaxGated)
    \/ \E r \in Clients : RateLimitDispatchWith(r, TRUE)
    \/ \E r \in Clients : SecurityDispatch(r)
    \/ \E r \in Clients : Endpoint(r, {GoodOutput}, {FALSE}, {FALSE})
    \/ Tick

SpecWindow == Init /\ [][NextWindow]_vars

\* C29: the windows of a key with limit N and window W never overlap: a new
\* window starts only at a request that arrives strictly after the previous
\* reset_at, and a request inside a window does not move reset_at; so at
\* most 2*N requests of the key are allowed in any interval of length W.
C29_WindowsDisjoint ==
    /\ [](\A k \in RLKeys : Len(gated[k].recent) <= 2 * KeyLimit(k))
    /\ [][\A r \in Reqs :
            Counting(r)
            => LET k == ContractKey(reqs[r].hdr, reqs[r].addr) IN
               IF now > requests[k][2]
               THEN requests'[k][2] = now + WINDOW_SIZE
               ELSE requests'[k][2] = requests[k][2]]_vars

\* the last call of one window and the first calls of the next have been
\* let through within WINDOW_SIZE ticks: 2*N - 1 calls, in two windows
C29_Witness ==
    \E k \in RLKeys :
        /\ Len(gated[k].recent) = 2 * KeyLimit(k) - 1
        /\ Len(gated[k].recent) > KeyLimit(k)
        /\ gated[k].recent[1] + WINDOW_SIZE < gated[k].reset_at
        /\ gated[k].recent[1] + WINDOW_SIZE >= now
        /\ requests[k] = <<KeyLimit(k), gated[k].reset_at>>

(***************************************************************************)
(* The order of the rate limiter and the key check.                        *)
(***************************************************************************)
\* C30: every request to a path that is not public is counted by the rate
\* limiter before its API key is verified: a request the key check sees, and
\* one it has answered with 401 (key missing or invalid), has already
\* incremented the counter of the caller's address, and a request rejected
\* with 429 is never checked for an API key, whatever its header.
C30_CountedBeforeKeyCheck ==
    /\ \A r \in Reqs :
          (reqs[r].pc = "security" /\ reqs[r].path \notin PUBLIC_PATHS)
            => /\ reqs[r].key = ContractKey(reqs[r].hdr, reqs[r].addr)
               /\ reqs[r].count >= 1
               /\ requests[reqs[r].key][1] >= reqs[r].count
    /\ (Responded /\ lastResp.status = 401)
            => /\ lastResp.stage = "security"
               /\ BadKey(lastResp.hdr)
               /\ lastResp.key \in {<<"ip", a>> : a \in Addrs}
               /\ lastResp.count >= 1
               /\ requests[lastResp.key][1] >= lastResp.count
    /\ (Responded /\ lastResp.status = 429)
            => /\ lastResp.stage = "ratelimit"
               /\ lastResp.detail = <<"RATE_LIMIT_ERROR", "Rate limit exceeded">>

\* a request without an API key has been rejected with 429, unchecked, by
\* the counter of its address, which the requests answered with 401 before
\* it had filled
C30_Witness ==
    /\ Responded
    /\ lastResp.status = 429
    /\ lastResp.hdr = NoHeader
    /\ lastResp.key \in {<<"ip", a>> : a \in Addrs}
    /\ lastResp.count = DEFAULT_RATE_LIMIT + 1
    /\ requests[<<"apikey", "dev-key-1">>][1] = 0

====
